---------------------------- MODULE Spec2Model ----------------------------
(***************************************************************************)
(* A model of promptflow/_utils/tool_utils.py: the reflection helpers that *)
(* turn a function signature into a tool definition, the prompt-template   *)
(* input extractor, the dynamic-list response validator and the workspace  *)
(* triple augmenter.  Every function of the file is pure, so the state is  *)
(* the call in progress: which function, its arguments, and (once it has   *)
(* run) what it returned or raised.                                        *)
(***************************************************************************)
EXTENDS Integers, Sequences, FiniteSets, TLC

VARIABLES fn, args, pc, result

vars == <<fn, args, pc, result>>

(***************************************************************************)
(* Bounds of the model.                                                    *)
(***************************************************************************)
MaxUnionArgs == 3
MaxParams == 3
MaxInitParams == 2
MaxDepth == 3
MaxTokens == 3
MaxResponseSize == 4

(***************************************************************************)
(* Generic helpers.                                                        *)
(***************************************************************************)
Range(s) == {s[i] : i \in 1..Len(s)}

\* Sequences over S of length lo..hi without a repeated element.
InjectiveSeqs(S, lo, hi) ==
    UNION {{s \in [1..n -> S] : \A i, j \in 1..n : i # j => s[i] # s[j]} : n \in lo..hi}

(***************************************************************************)
(* Python values of the description chain.                                 *)
(*                                                                         *)
(* A class is its name.  An annotation is a class, or a typing.Union of    *)
(* distinct classes (typing flattens and deduplicates a Union, and a Union *)
(* of one member is that member, so a Union has two members or more).      *)
(* inspect.Parameter.empty is the class "_empty".                          *)
(***************************************************************************)
Empty == "_empty"
NoneType == "NoneType"

EnumClasses == {"Color", "Level"}
BuiltinConnections == {"AzureOpenAIConnection", "CustomConnection"}
CustomStrongTypes == {"MyCustomConnection", "OtherCustomConnection"}
AnnotationClasses ==
    {"str", NoneType} \cup EnumClasses \cup BuiltinConnections \cup CustomStrongTypes

PlainAnnotation(t) == [origin |-> "", t |-> t, args |-> <<>>]
UnionAnnotation(ts) == [origin |-> "Union", t |-> "", args |-> ts]

Annotations ==
    {PlainAnnotation(t) : t \in AnnotationClasses \cup {Empty}}
        \cup {UnionAnnotation(ts) : ts \in InjectiveSeqs(AnnotationClasses, 2, MaxUnionArgs)}

get_origin(anno) == anno.origin
get_args(anno) == anno.args

\* What resolve_annotation returns: a class, or a list of classes.
TypeValue(t) == [isList |-> FALSE, t |-> t, ts |-> <<>>]
ListValue(ts) == [isList |-> TRUE, t |-> "", ts |-> ts]

\* Values a parameter's default may be.  An enum member carries its class,
\* its name and its underlying value (a str for Color, an int for Level).
NoDefault == [kind |-> Empty, cls |-> Empty, member |-> "", vkind |-> "", s |-> "", n |-> 0]
NoneDefault == [kind |-> NoneType, cls |-> NoneType, member |-> "", vkind |-> "", s |-> "", n |-> 0]
StrDefault(s) == [kind |-> "str", cls |-> "str", member |-> "", vkind |-> "str", s |-> s, n |-> 0]
IntDefault(n) == [kind |-> "int", cls |-> "int", member |-> "", vkind |-> "int", s |-> "", n |-> n]
StrEnumMember(c, m, s) == [kind |-> "enum", cls |-> c, member |-> m, vkind |-> "str", s |-> s, n |-> 0]
IntEnumMember(c, m, n) == [kind |-> "enum", cls |-> c, member |-> m, vkind |-> "int", s |-> "", n |-> n]

\* class Color(Enum): RED = "red"; BLUE = "blue"
\* class Level(Enum): ONE = 1; TWO = 2
EnumMembers(c) ==
    IF c = "Color" THEN <<StrEnumMember("Color", "RED", "red"), StrEnumMember("Color", "BLUE", "blue")>>
    ELSE IF c = "Level" THEN <<IntEnumMember("Level", "ONE", 1), IntEnumMember("Level", "TWO", 2)>>
    ELSE <<>>

Defaults ==
    {NoDefault, NoneDefault, StrDefault("hello"), IntDefault(3),
     EnumMembers("Color")[1], EnumMembers("Level")[1]}

\* A Python object that is None, a str or an int (a serialized default).
PyNone == [kind |-> NoneType, s |-> "", n |-> 0]
PyStr(s) == [kind |-> "str", s |-> s, n |-> 0]
PyInt(n) == [kind |-> "int", s |-> "", n |-> n]

\* The underlying value of an enum member or of a str/int: val.value / val.
ValueOf(val) == IF val.vkind = "int" THEN PyInt(val.n) ELSE PyStr(val.s)

\* str(val) of a default value.
Str(val) ==
    CASE val.kind = "enum" -> val.cls \o "." \o val.member
      [] val.kind = "int" -> ToString(val.n)
      [] val.kind = NoneType -> "None"
      [] OTHER -> val.s

\* An optional list: None, or a list.
Absent == [isNone |-> TRUE, items |-> <<>>]
Some(items) == [isNone |-> FALSE, items |-> items]

(***************************************************************************)
(* promptflow.contracts.tool: ValueType and ConnectionType.                *)
(***************************************************************************)
ValueType_STRING == "string"
ValueType_OBJECT == "object"
ValueType_IMAGE == "image"

ValueType_from_type(t) ==
    CASE t = "str" -> ValueType_STRING
      [] t = "int" -> "int"
      [] OTHER -> ValueType_OBJECT

is_custom_strong_type(v) == ~v.isList /\ v.t \in CustomStrongTypes

is_connection_value(v) ==
    ~v.isList /\ (v.t \in BuiltinConnections \/ is_custom_strong_type(v))

(***************************************************************************)
(* value_to_str                                                            *)
(***************************************************************************)
value_to_str_NoneAsText(val) ==
    CASE val.kind = Empty -> PyNone
      [] val.kind = "enum" -> ValueOf(val)
      [] OTHER -> PyStr(Str(val))

value_to_str(val) ==
    CASE val.kind = Empty -> PyNone
      [] val.kind = NoneType -> PyStr("")
      [] val.kind = "enum" -> ValueOf(val)
      [] OTHER -> PyStr(Str(val))

(***************************************************************************)
(* resolve_annotation                                                      *)
(***************************************************************************)
resolve_annotation_KeepsNone(anno) ==
    IF get_origin(anno) # "Union" THEN TypeValue(anno.t)
    ELSE LET a == get_args(anno)
         IN  IF Len(a) = 1 THEN TypeValue(a[1]) ELSE ListValue(a)

resolve_annotation(anno) ==
    IF get_origin(anno) # "Union" THEN TypeValue(anno.t)
    ELSE LET a == SelectSeq(get_args(anno), LAMBDA arg : arg # NoneType)
         IN  IF Len(a) = 1 THEN TypeValue(a[1]) ELSE ListValue(a)

(***************************************************************************)
(* param_to_definition                                                     *)
(***************************************************************************)
\* Lines 46-53: the resolved annotation, or the default's class when there
\* is a default and no annotation.
InferValueType(param) ==
    LET value_type == resolve_annotation(param.annotation)
    IN  IF param.default # NoDefault /\ value_type = TypeValue(Empty)
        THEN TypeValue(param.default.cls)
        ELSE value_type

StrOfValue(member) ==
    IF member.vkind = "int" THEN ToString(member.n) ELSE member.s

EnumOptions(c) == [i \in 1..Len(EnumMembers(c)) |-> StrOfValue(EnumMembers(c)[i])]

\* Lines 55-57: an enum class gives its members' values and becomes str.
ExtractEnum_FromDefault(param, value_type) ==
    IF ~value_type.isList /\ value_type.t \in EnumClasses
    THEN [enum |-> Some(EnumOptions(value_type.t)), value_type |-> TypeValue("str")]
    ELSE IF param.default.kind = "enum"
    THEN [enum |-> Some(EnumOptions(param.default.cls)), value_type |-> value_type]
    ELSE [enum |-> Absent, value_type |-> value_type]

ExtractEnum(param, value_type) ==
    IF ~value_type.isList /\ value_type.t \in EnumClasses
    THEN [enum |-> Some(EnumOptions(value_type.t)), value_type |-> TypeValue("str")]
    ELSE [enum |-> Absent, value_type |-> value_type]

\* Lines 70-85: the loop over the candidates of a union of connections.
RECURSIVE CollectConnectionTypes(_, _, _, _, _)
CollectConnectionTypes(ts, i, custom_connection_added, typ, custom_type_conn) ==
    IF i > Len(ts) THEN [typ |-> typ, custom_type_conn |-> custom_type_conn]
    ELSE LET t == ts[i]
         IN  IF is_custom_strong_type(TypeValue(t))
             THEN CollectConnectionTypes(ts, i + 1, TRUE,
                      IF ~custom_connection_added THEN Append(typ, "CustomConnection") ELSE typ,
                      Append(custom_type_conn, t))
             ELSE IF t # "CustomConnection"
             THEN CollectConnectionTypes(ts, i + 1, custom_connection_added,
                      Append(typ, t), custom_type_conn)
             ELSE IF ~custom_connection_added
             THEN CollectConnectionTypes(ts, i + 1, TRUE, Append(typ, t), custom_type_conn)
             ELSE CollectConnectionTypes(ts, i + 1, custom_connection_added, typ, custom_type_conn)

RECURSIVE CollectConnectionTypes_NoFlag(_, _, _, _, _)
CollectConnectionTypes_NoFlag(ts, i, custom_connection_added, typ, custom_type_conn) ==
    IF i > Len(ts) THEN [typ |-> typ, custom_type_conn |-> custom_type_conn]
    ELSE LET t == ts[i]
         IN  IF is_custom_strong_type(TypeValue(t))
             THEN CollectConnectionTypes_NoFlag(ts, i + 1, TRUE,
                      IF ~custom_connection_added THEN Append(typ, "CustomConnection") ELSE typ,
                      Append(custom_type_conn, t))
             ELSE CollectConnectionTypes_NoFlag(ts, i + 1, custom_connection_added,
                      Append(typ, t), custom_type_conn)

\* Lines 58-88: the type tags, the custom types and the connection flag.
ClassifyValueType_NoFlag(value_type) ==
    IF is_connection_value(value_type)
    THEN IF is_custom_strong_type(value_type)
         THEN [typ |-> <<"CustomConnection">>, custom_type_conn |-> Some(<<value_type.t>>),
               is_connection |-> TRUE]
         ELSE [typ |-> <<value_type.t>>, custom_type_conn |-> Absent, is_connection |-> TRUE]
    ELSE IF value_type.isList
    THEN IF ~(\A i \in 1..Len(value_type.ts) : is_connection_value(TypeValue(value_type.ts[i])))
         THEN [typ |-> <<ValueType_OBJECT>>, custom_type_conn |-> Absent, is_connection |-> FALSE]
         ELSE LET r == CollectConnectionTypes_NoFlag(value_type.ts, 1, FALSE, <<>>, <<>>)
              IN  [typ |-> r.typ, custom_type_conn |-> Some(r.custom_type_conn),
                   is_connection |-> TRUE]
    ELSE [typ |-> <<ValueType_from_type(value_type.t)>>, custom_type_conn |-> Absent,
          is_connection |-> FALSE]

ClassifyValueType(value_type) ==
    IF is_connection_value(value_type)
    THEN IF is_custom_strong_type(value_type)
         THEN [typ |-> <<"CustomConnection">>, custom_type_conn |-> Some(<<value_type.t>>),
               is_connection |-> TRUE]
         ELSE [typ |-> <<value_type.t>>, custom_type_conn |-> Absent, is_connection |-> TRUE]
    ELSE IF value_type.isList
    THEN IF ~(\A i \in 1..Len(value_type.ts) : is_connection_value(TypeValue(value_type.ts[i])))
         THEN [typ |-> <<ValueType_OBJECT>>, custom_type_conn |-> Absent, is_connection |-> FALSE]
         ELSE LET r == CollectConnectionTypes(value_type.ts, 1, FALSE, <<>>, <<>>)
              IN  [typ |-> r.typ, custom_type_conn |-> Some(r.custom_type_conn),
                   is_connection |-> TRUE]
    ELSE [typ |-> <<ValueType_from_type(value_type.t)>>, custom_type_conn |-> Absent,
          is_connection |-> FALSE]

InputDefinition(typ, default, enum, custom_type) ==
    [type |-> typ, default |-> default, description |-> PyNone, enum |-> enum,
     custom_type |-> custom_type]

param_to_definition(param, gen_custom_type_conn) ==
    LET e == ExtractEnum(param, InferValueType(param))
        c == ClassifyValueType(e.value_type)
    IN  [input_def |-> InputDefinition(
                           c.typ,
                           value_to_str(param.default),
                           e.enum,
                           IF ~gen_custom_type_conn THEN Absent ELSE c.custom_type_conn),
         is_connection |-> c.is_connection]

Params == [annotation : Annotations, default : Defaults]

(***************************************************************************)
(* Signatures.  A parameter has a name, a kind, an annotation and a        *)
(* default; inspect.Signature keeps the kinds in rank order and the names  *)
(* distinct.  A dict is the sequence of its items in insertion order.      *)
(***************************************************************************)
POSITIONAL_OR_KEYWORD == "POSITIONAL_OR_KEYWORD"
VAR_POSITIONAL == "VAR_POSITIONAL"
KEYWORD_ONLY == "KEYWORD_ONLY"
VAR_KEYWORD == "VAR_KEYWORD"

KindRank(kind) ==
    CASE kind = POSITIONAL_OR_KEYWORD -> 1
      [] kind = VAR_POSITIONAL -> 2
      [] kind = KEYWORD_ONLY -> 3
      [] kind = VAR_KEYWORD -> 4

Parameter(name, kind, annotation, default) ==
    [name |-> name, kind |-> kind, annotation |-> annotation, default |-> default]

\* def f(self, a: str, conn: AzureOpenAIConnection, *args, b="hello", **kwargs)
FunctionParameters ==
    {Parameter("self", POSITIONAL_OR_KEYWORD, PlainAnnotation(Empty), NoDefault),
     Parameter("a", POSITIONAL_OR_KEYWORD, PlainAnnotation("str"), NoDefault),
     Parameter("conn", POSITIONAL_OR_KEYWORD, PlainAnnotation("AzureOpenAIConnection"), NoDefault),
     Parameter("args", VAR_POSITIONAL, PlainAnnotation(Empty), NoDefault),
     Parameter("b", KEYWORD_ONLY, PlainAnnotation(Empty), StrDefault("hello")),
     Parameter("kwargs", VAR_KEYWORD, PlainAnnotation(Empty), NoDefault)}

\* def __init__(self, a: str, conn: MyCustomConnection, *, c=Color.RED, **kwargs),
\* as get_initialize_inputs hands it over: without self.
InitializerParameters ==
    {Parameter("a", POSITIONAL_OR_KEYWORD, PlainAnnotation("str"), NoDefault),
     Parameter("conn", POSITIONAL_OR_KEYWORD, PlainAnnotation("MyCustomConnection"), NoDefault),
     Parameter("c", KEYWORD_ONLY, PlainAnnotation(Empty), EnumMembers("Color")[1]),
     Parameter("kwargs", VAR_KEYWORD, PlainAnnotation(Empty), NoDefault)}

WellFormedSignature(ps) ==
    /\ \A i, j \in 1..Len(ps) : i # j => ps[i].name # ps[j].name
    /\ \A i, j \in 1..Len(ps) : i < j => KindRank(ps[i].kind) <= KindRank(ps[j].kind)

SignaturesOver(P, n) ==
    UNION {{ps \in [1..k -> P] : WellFormedSignature(ps)} : k \in 0..n}

Signatures == SignaturesOver(FunctionParameters, MaxParams)

\* initialize_inputs: None, or the initializer's parameters by name.
NoInputs == [isNone |-> TRUE, items |-> <<>>]
InitializeInputs ==
    {NoInputs} \cup {Some(ps) : ps \in SignaturesOver(InitializerParameters, MaxInitParams)}

Item(k, v) == [k |-> k, v |-> v]
Keys(d) == [i \in 1..Len(d) |-> d[i].k]

\* d[k] = v on a dict: a present key keeps its place, a new key goes last.
DictSet(d, k, v) ==
    IF \E i \in 1..Len(d) : d[i].k = k
    THEN [i \in 1..Len(d) |-> IF d[i].k = k THEN Item(k, v) ELSE d[i]]
    ELSE Append(d, Item(k, v))

\* d.update(items)
RECURSIVE DictUpdate(_, _)
DictUpdate(d, items) ==
    IF items = <<>> THEN d
    ELSE DictUpdate(DictSet(d, Head(items).k, Head(items).v), Tail(items))

ParameterItems(ps) == [i \in 1..Len(ps) |-> Item(ps[i].name, ps[i])]

(***************************************************************************)
(* function_to_interface                                                   *)
(***************************************************************************)
Raised(what) ==
    [raised |-> what, input_defs |-> <<>>, outputs |-> <<>>, connection_types |-> <<>>]

\* Lines 120-126: the callable's own parameters that are named inputs.
OwnInputs_KeepsSelf(parameters) ==
    SelectSeq(ParameterItems(parameters),
              LAMBDA it : it.v.kind # VAR_KEYWORD /\ it.v.kind # VAR_POSITIONAL)

OwnInputs(parameters) ==
    SelectSeq(ParameterItems(parameters),
              LAMBDA it : it.k # "self" /\ it.v.kind # VAR_KEYWORD /\ it.v.kind # VAR_POSITIONAL)

\* Lines 128-132: the definitions, and the connection inputs' type tags.
ResolveInputs(all_inputs, gen_custom_type_conn) ==
    LET defs == [i \in 1..Len(all_inputs) |->
                    param_to_definition(all_inputs[i].v, gen_custom_type_conn)]
        conn == SelectSeq([i \in 1..Len(all_inputs) |-> defs[i]], LAMBDA r : r.is_connection)
    IN  [raised |-> "",
         input_defs |-> [i \in 1..Len(all_inputs) |-> Item(all_inputs[i].k, defs[i].input_def)],
         outputs |-> <<>>,
         connection_types |-> [i \in 1..Len(conn) |-> conn[i].input_def.type]]

function_to_interface(f, initialize_inputs, gen_custom_type_conn) ==
    LET sign == f.parameters
        given == ~initialize_inputs.isNone /\ initialize_inputs.items # <<>>
        init == ParameterItems(initialize_inputs.items)
    IN  IF given /\ \E i \in 1..Len(init) :
                        init[i].k # "" /\ init[i].k \in {sign[j].name : j \in 1..Len(sign)}
        THEN Raised("Exception")
        ELSE ResolveInputs(DictUpdate(IF given THEN init ELSE <<>>, OwnInputs(sign)),
                           gen_custom_type_conn)

(***************************************************************************)
(* function_to_tool_definition.  Names are strings of characters.          *)
(***************************************************************************)
Dot == "."

\* s.startswith(old)
StartsWith(s, old) == Len(s) >= Len(old) /\ SubSeq(s, 1, Len(old)) = old

\* s.replace(old, ""): every occurrence of old, left to right, is dropped.
RECURSIVE Replace(_, _)
Replace(s, old) ==
    IF s = <<>> \/ old = <<>> THEN s
    ELSE IF StartsWith(s, old) THEN Replace(SubSeq(s, Len(old) + 1, Len(s)), old)
    ELSE <<Head(s)>> \o Replace(Tail(s), old)

\* Line 153: f.__qualname__.replace(f".{f.__name__}", "")
ClassNameOf(f) == Replace(f.qualname, <<Dot>> \o f.name)

NoTool == [name |-> <<>>, description |-> PyNone, inputs |-> <<>>, outputs |-> <<>>,
           class_name |-> Absent, function |-> <<>>, type |-> "", module |-> "",
           is_builtin |-> FALSE, stage |-> ""]

function_to_tool_definition(f0, type, initialize_inputs) ==
    LET f == IF f0.has_original THEN f0.original ELSE f0.own
        interface == function_to_interface(f, initialize_inputs, FALSE)
        class_name == IF Dot \in Range(f.qualname) THEN Some(ClassNameOf(f)) ELSE Absent
    IN  IF interface.raised # "" THEN [raised |-> interface.raised, tool |-> NoTool]
        ELSE [raised |-> "",
              tool |-> [name |-> f.qualname,
                        description |-> IF f.doc = "" THEN PyNone ELSE PyStr(f.doc),
                        inputs |-> interface.input_defs,
                        outputs |-> interface.outputs,
                        class_name |-> class_name,
                        function |-> f.name,
                        type |-> type,
                        module |-> f.module,
                        is_builtin |-> TRUE,
                        stage |-> "test"]]

\* Identifiers, and the qualified names made of them: a function's
\* __qualname__ is the names of its enclosing classes and its own, dotted.
Identifiers == {<<"a">>, <<"b">>, <<"a", "b">>}

RECURSIVE Join(_)
Join(parts) ==
    IF Len(parts) = 1 THEN parts[1]
    ELSE parts[1] \o <<Dot>> \o Join(Tail(parts))

QualifiedPaths == UNION {[1..n -> Identifiers] : n \in 1..MaxDepth}

FunctionOf(path, parameters, doc) ==
    [qualname |-> Join(path), name |-> path[Len(path)], parameters |-> parameters,
     doc |-> doc, module |-> "my_tools"]

ToolSignatures == SignaturesOver(FunctionParameters, 1)

\* inspect.getdoc(f) is None or "" for a function without documentation.
Functions ==
    {FunctionOf(path, ps, doc) :
         path \in QualifiedPaths, ps \in ToolSignatures, doc \in {"", "A tool."}}

\* The wrapper a tool decorator leaves in place of the function.
Wrapper ==
    [qualname |-> <<"w">>, name |-> <<"w">>, doc |-> "", module |-> "my_tools",
     parameters |-> <<Parameter("args", VAR_POSITIONAL, PlainAnnotation(Empty), NoDefault),
                      Parameter("kwargs", VAR_KEYWORD, PlainAnnotation(Empty), NoDefault)>>]

Callables ==
    {[own |-> f, has_original |-> FALSE, original |-> f] : f \in Functions}
        \cup {[own |-> Wrapper, has_original |-> TRUE, original |-> f] : f \in Functions}

ToolInitializeInputs ==
    {NoInputs} \cup {Some(ps) : ps \in SignaturesOver(InitializerParameters, 1)}

(***************************************************************************)
(* get_inputs_for_prompt_template.  A template is a string of characters:  *)
(* plain text, {{name}} references and ![image]({{name}}) references.      *)
(***************************************************************************)
Open == <<"{", "{">>
Close == <<"}", "}">>
ImageOpen == <<"!", "[", "i", "m", "a", "g", "e", "]", "(">> \o Open
ImageClose == Close \o <<")">>

From(s, i) == SubSeq(s, i, Len(s))

\* template_str.find(x): the index, from 0, of the first occurrence of x
\* as a substring, or -1.
Find(s, x) ==
    LET at == {i \in 1..Len(s) : StartsWith(From(s, i), x)}
    IN  IF at = {} THEN -1 ELSE (CHOOSE i \in at : \A j \in at : i <= j) - 1

\* s.strip()
RECURSIVE Strip(_)
Strip(s) ==
    IF s = <<>> THEN s
    ELSE IF Head(s) = " " THEN Strip(Tail(s))
    ELSE IF s[Len(s)] = " " THEN Strip(SubSeq(s, 1, Len(s) - 1))
    ELSE s

\* The longest prefix of s without a brace.
RECURSIVE BraceFree(_)
BraceFree(s) ==
    IF s = <<>> \/ Head(s) \in {"{", "}"} THEN <<>>
    ELSE <<Head(s)>> \o BraceFree(Tail(s))

\* meta.find_undeclared_variables(env.parse(template_str)): the names the
\* template's {{ }} expressions refer to.
RECURSIVE find_undeclared_variables(_)
find_undeclared_variables(s) ==
    IF s = <<>> THEN {}
    ELSE IF StartsWith(s, Open)
    THEN LET body == BraceFree(From(s, Len(Open) + 1))
         IN  {Strip(body)} \cup find_undeclared_variables(From(s, Len(Open) + Len(body) + 1))
    ELSE find_undeclared_variables(Tail(s))

\* re.finditer(pattern, template_str): group(2).strip() of every match of
\* \!\[(\s*image\s*)\]\(\{\{\s*([^{}]+)\s*\}\}\), left to right.
RECURSIVE ImageMatches(_)
ImageMatches(s) ==
    IF s = <<>> THEN <<>>
    ELSE IF StartsWith(s, ImageOpen)
    THEN LET body == BraceFree(From(s, Len(ImageOpen) + 1))
             rest == From(s, Len(ImageOpen) + Len(body) + 1)
         IN  IF body # <<>> /\ StartsWith(rest, ImageClose)
             THEN <<Strip(body)>> \o ImageMatches(From(rest, Len(ImageClose) + 1))
             ELSE ImageMatches(Tail(s))
    ELSE ImageMatches(Tail(s))

\* list.insert of x into the sorted list s after every element whose key
\* is not greater: sorted() is stable.
RECURSIVE InsertByKey(_, _, _)
InsertByKey(s, x, template_str) ==
    IF s = <<>> THEN <<x>>
    ELSE IF Find(template_str, x) < Find(template_str, Head(s)) THEN <<x>> \o s
    ELSE <<Head(s)>> \o InsertByKey(Tail(s), x, template_str)

\* sorted(iterable, key=lambda x: template_str.find(x))
RECURSIVE SortedByFind(_, _)
SortedByFind(iterable, template_str) ==
    IF iterable = <<>> THEN <<>>
    ELSE InsertByKey(SortedByFind(SubSeq(iterable, 1, Len(iterable) - 1), template_str),
                     iterable[Len(iterable)], template_str)

\* Lines 197-199: every match sets its name's definition to the image type.
RECURSIVE OverrideImages(_, _)
OverrideImages(result_dict, matches) ==
    IF matches = <<>> THEN result_dict
    ELSE OverrideImages(
             DictSet(result_dict, Head(matches),
                     InputDefinition(<<ValueType_IMAGE>>, PyNone, Absent, Absent)),
             Tail(matches))

\* iteration is the order in which the set of undeclared variables is
\* iterated: a set of str has no order of its own.
get_inputs_for_prompt_template(template_str, iteration) ==
    LET inputs == SortedByFind(iteration, template_str)
        result_dict == [i \in 1..Len(inputs) |->
                           Item(inputs[i], InputDefinition(<<ValueType_STRING>>, PyNone, Absent, Absent))]
    IN  OverrideImages(result_dict, ImageMatches(template_str))

\* The orders a set can be iterated in.
Iterations(S) == {s \in [1..Cardinality(S) -> S] : Range(s) = S}

TextToken(c) == <<c>>
VariableToken(name) == Open \o name \o Close
ImageToken(name) == ImageOpen \o name \o ImageClose

Tokens ==
    {TextToken("a"), TextToken(" ")}
        \cup {VariableToken(n) : n \in Identifiers}
        \cup {ImageToken(n) : n \in Identifiers}

RECURSIVE Concat(_)
Concat(parts) == IF parts = <<>> THEN <<>> ELSE Head(parts) \o Concat(Tail(parts))

Templates == {Concat(parts) : parts \in UNION {[1..n -> Tokens] : n \in 0..MaxTokens}}

(***************************************************************************)
(* validate_dynamic_list_func_response_type.  An object is of a class; a   *)
(* list has items, a dict has entries in insertion order, and whether      *)
(* json.dumps accepts a value is a property of the value.                  *)
(***************************************************************************)
Object(class, truthy) == [class |-> class, truthy |-> truthy, items |-> <<>>]
List(items) == [class |-> "list", truthy |-> items # <<>>, items |-> items]

Dict(entries) == [class |-> "dict", entries |-> entries]
NotADict(class) == [class |-> class, entries |-> <<>>]

Key(class, s) == [class |-> class, s |-> s]
Value(class, serializable) == [class |-> class, serializable |-> serializable]

\* "value", "display_value" and the int 1 as keys.
ResponseKeys == {Key("str", "value"), Key("str", "display_value"), Key("int", "1")}

\* "x", True, None, {1} and [{1}] as values.
ResponseValues ==
    {Value("str", TRUE), Value("bool", TRUE), Value(NoneType, TRUE),
     Value("set", FALSE), Value("list", FALSE)}

\* cls.__mro__, as far as the classes checked for go: a bool is an int.
Bases(class) == IF class = "bool" THEN {"bool", "int"} ELSE {class}

isinstance(obj, classes) == Bases(obj.class) \cap classes # {}

is_json_serializable(value) == value.serializable

ListFunctionResponseError(rule, item, entry) ==
    [raised |-> "ListFunctionResponseError", rule |-> rule, item |-> item, entry |-> entry]
Returned == [raised |-> "", rule |-> "", item |-> 0, entry |-> 0]

\* The same checks made rule by rule over the whole item.
ValidateEntries_RuleByRule(entries, i, j) ==
    LET keys == {n \in j..Len(entries) : ~isinstance(entries[n].k, {"str"})}
        dumps == {n \in j..Len(entries) : ~is_json_serializable(entries[n].v)}
        types == {n \in j..Len(entries) :
                      ~isinstance(entries[n].v, {"str", "int", "float", "list", "dict"})}
        First(S) == CHOOSE n \in S : \A m \in S : n <= m
    IN  IF keys # {} THEN ListFunctionResponseError("key must be a string", i, First(keys))
        ELSE IF dumps # {}
        THEN ListFunctionResponseError("value is not json serializable", i, First(dumps))
        ELSE IF types # {}
        THEN ListFunctionResponseError("value is not supported", i, First(types))
        ELSE Returned

\* Lines 228-236: the entries of item i, from entry j on.
RECURSIVE ValidateEntries(_, _, _)
ValidateEntries(entries, i, j) ==
    IF j > Len(entries) THEN Returned
    ELSE LET key == entries[j].k
             value == entries[j].v
         IN  IF ~isinstance(key, {"str"})
             THEN ListFunctionResponseError("key must be a string", i, j)
             ELSE IF ~is_json_serializable(value)
             THEN ListFunctionResponseError("value is not json serializable", i, j)
             ELSE IF ~isinstance(value, {"str", "int", "float", "list", "dict"})
             THEN ListFunctionResponseError("value is not supported", i, j)
             ELSE ValidateEntries(entries, i, j + 1)

\* The items checked without the 'value' key rule.
RECURSIVE ValidateItems_NoValueKeyCheck(_, _)
ValidateItems_NoValueKeyCheck(response, i) ==
    IF i > Len(response) THEN Returned
    ELSE LET item == response[i]
         IN  IF ~isinstance(item, {"dict"})
             THEN ListFunctionResponseError("must be a list of dict", i, 0)
             ELSE LET r == ValidateEntries(item.entries, i, 1)
                  IN  IF r.raised # "" THEN r
                      ELSE ValidateItems_NoValueKeyCheck(response, i + 1)

\* Lines 223-227: the items of the response, from item i on.
RECURSIVE ValidateItems(_, _)
ValidateItems(response, i) ==
    IF i > Len(response) THEN Returned
    ELSE LET item == response[i]
         IN  IF ~isinstance(item, {"dict"})
             THEN ListFunctionResponseError("must be a list of dict", i, 0)
             ELSE IF ~(\E n \in 1..Len(item.entries) : item.entries[n].k = Key("str", "value"))
             THEN ListFunctionResponseError("must have 'value' key", i, 0)
             ELSE LET r == ValidateEntries(item.entries, i, 1)
                  IN  IF r.raised # "" THEN r ELSE ValidateItems(response, i + 1)

validate_dynamic_list_func_response_type(response, f) ==
    IF ~response.truthy THEN ListFunctionResponseError("can not be empty", 0, 0)
    ELSE IF ~isinstance(response, {"list"})
    THEN ListFunctionResponseError("must be a list", 0, 0)
    ELSE ValidateItems(response.items, 1)

\* The dicts of n entries, the items and the lists of a given size, where
\* an item counts one and each of its entries one more.
DictsOf(n) ==
    {Dict(es) : es \in {es \in [1..n -> [k : ResponseKeys, v : ResponseValues]] :
                            \A a, b \in 1..n : a # b => es[a].k # es[b].k}}

ItemsOfSize(n) ==
    (IF n = 1 THEN {NotADict("str"), NotADict("int")} ELSE {}) \cup DictsOf(n - 1)

RECURSIVE ListsOfSize(_)
ListsOfSize(n) ==
    IF n = 0 THEN {<<>>}
    ELSE UNION {{<<item>> \o rest : item \in ItemsOfSize(k), rest \in ListsOfSize(n - k)} :
                   k \in 1..n}

\* None, "", "x", 0, 5, {}, {"value": "x"}, and the lists.
Responses ==
    {Object(NoneType, FALSE), Object("str", FALSE), Object("str", TRUE), Object("int", FALSE),
     Object("int", TRUE), Object("dict", FALSE), Object("dict", TRUE)}
        \cup {List(items) : items \in UNION {ListsOfSize(n) : n \in 0..MaxResponseSize}}

(***************************************************************************)
(* append_workspace_triple_to_func_input_params                            *)
(***************************************************************************)
\* dict(avail_ws_info_dict, **func_input_params_dict)
CombineTripleOver(avail_ws_info_dict, func_input_params_dict) ==
    DictUpdate(func_input_params_dict, avail_ws_info_dict)

Combine(avail_ws_info_dict, func_input_params_dict) ==
    DictUpdate(avail_ws_info_dict, func_input_params_dict)

append_workspace_triple_to_func_input_params(func_sig_params, func_input_params_dict, ws_triple_dict) ==
    LET ws == IF ~ws_triple_dict.isNone THEN ws_triple_dict.items ELSE <<>>
        input == IF ~func_input_params_dict.isNone THEN func_input_params_dict.items ELSE <<>>
        has_kwargs_param == \E param \in func_sig_params : param.kind = VAR_KEYWORD
        avail_ws_info_dict ==
            IF has_kwargs_param = FALSE
            THEN SelectSeq(ws, LAMBDA it : it.k \in {param.name : param \in func_sig_params})
            ELSE ws
    IN  Combine(avail_ws_info_dict, input)

\* def list_func(subscription_id, resource_group_name, prefix, *args, **kwargs)
ListFunctionParameters ==
    {Parameter("subscription_id", POSITIONAL_OR_KEYWORD, PlainAnnotation("str"), NoDefault),
     Parameter("resource_group_name", POSITIONAL_OR_KEYWORD, PlainAnnotation("str"), NoDefault),
     Parameter("prefix", POSITIONAL_OR_KEYWORD, PlainAnnotation("str"), NoDefault),
     Parameter("args", VAR_POSITIONAL, PlainAnnotation(Empty), NoDefault),
     Parameter("kwargs", VAR_KEYWORD, PlainAnnotation(Empty), NoDefault)}

WorkspaceTriple ==
    <<Item("subscription_id", "ws-sub"), Item("resource_group_name", "ws-rg"),
      Item("workspace_name", "ws-name")>>

UserInputs ==
    <<Item("prefix", "user-prefix"), Item("subscription_id", "user-sub"),
      Item("workspace_name", "user-name")>>

\* None, or a dict of some of the items of d.
OptionalSubDicts(d) ==
    {NoInputs} \cup {Some(SelectSeq(d, LAMBDA it : it.k \in S)) : S \in SUBSET Range(Keys(d))}

(***************************************************************************)
(* The calls.                                                              *)
(***************************************************************************)
Pending == "pending"

Init ==
    /\ pc = "call"
    /\ result = Pending
    /\ \/ fn = "resolve_annotation" /\ args \in [anno : Annotations]
       \/ fn = "param_to_definition"
            /\ args \in [param : Params, gen_custom_type_conn : BOOLEAN]
       \/ fn = "function_to_interface"
            /\ args \in [f : [parameters : Signatures],
                         initialize_inputs : InitializeInputs,
                         gen_custom_type_conn : BOOLEAN]
       \/ fn = "get_inputs_for_prompt_template"
            /\ args \in [template_str : Templates]
       \/ fn = "validate_dynamic_list_func_response_type"
            /\ args \in [response : Responses, f : {"my_list_func"}]
       \/ fn = "append_workspace_triple_to_func_input_params"
            /\ args \in [func_sig_params : SUBSET ListFunctionParameters,
                         func_input_params_dict : OptionalSubDicts(UserInputs),
                         ws_triple_dict : OptionalSubDicts(WorkspaceTriple)]
       \/ fn = "function_to_tool_definition"
            /\ args \in [f : Callables, type : {"python"},
                         initialize_inputs : ToolInitializeInputs]

Call_resolve_annotation ==
    /\ pc = "call" /\ fn = "resolve_annotation"
    /\ result' = resolve_annotation(args.anno)
    /\ pc' = "done"
    /\ UNCHANGED <<fn, args>>

Call_param_to_definition ==
    /\ pc = "call" /\ fn = "param_to_definition"
    /\ result' = param_to_definition(args.param, args.gen_custom_type_conn)
    /\ pc' = "done"
    /\ UNCHANGED <<fn, args>>

Call_function_to_interface ==
    /\ pc = "call" /\ fn = "function_to_interface"
    /\ result' = function_to_interface(args.f, args.initialize_inputs, args.gen_custom_type_conn)
    /\ pc' = "done"
    /\ UNCHANGED <<fn, args>>

Call_function_to_tool_definition ==
    /\ pc = "call" /\ fn = "function_to_tool_definition"
    /\ result' = function_to_tool_definition(args.f, args.type, args.initialize_inputs)
    /\ pc' = "done"
    /\ UNCHANGED <<fn, args>>

Call_get_inputs_for_prompt_template ==
    /\ pc = "call" /\ fn = "get_inputs_for_prompt_template"
    /\ \E iteration \in Iterations(find_undeclared_variables(args.template_str)) :
           result' = get_inputs_for_prompt_template(args.template_str, iteration)
    /\ pc' = "done"
    /\ UNCHANGED <<fn, args>>

Call_validate_dynamic_list_func_response_type ==
    /\ pc = "call" /\ fn = "validate_dynamic_list_func_response_type"
    /\ result' = validate_dynamic_list_func_response_type(args.response, args.f)
    /\ pc' = "done"
    /\ UNCHANGED <<fn, args>>

Call_append_workspace_triple_to_func_input_params ==
    /\ pc = "call" /\ fn = "append_workspace_triple_to_func_input_params"
    /\ result' = append_workspace_triple_to_func_input_params(
                      args.func_sig_params, args.func_input_params_dict, args.ws_triple_dict)
    /\ pc' = "done"
    /\ UNCHANGED <<fn, args>>

Next ==
    \/ Call_validate_dynamic_list_func_response_type
    \/ Call_append_workspace_triple_to_func_input_params
    \/ Call_get_inputs_for_prompt_template
    \/ Call_resolve_annotation
    \/ Call_param_to_definition
    \/ Call_function_to_interface
    \/ Call_function_to_tool_definition

Spec == Init /\ [][Next]_vars

(***************************************************************************)
(* Properties.                                                             *)
(***************************************************************************)
Done(f) == pc = "done" /\ fn = f

\* The members of a union other than the absence type, in their order.
RECURSIVE WithoutNone(_)
WithoutNone(s) ==
    IF s = <<>> THEN <<>>
    ELSE IF Head(s) = NoneType THEN WithoutNone(Tail(s))
    ELSE <<Head(s)>> \o WithoutNone(Tail(s))

ConnectionCapable(t) == t \in BuiltinConnections \cup CustomStrongTypes

Count(x, s) == Cardinality({i \in 1..Len(s) : s[i] = x})

\* C6 as stated: the default is absent exactly when the parameter declares
\* none, and otherwise is a string: "" for None, and the display string of
\* the default value in every other case, enum members included.
C6_Original ==
    Done("param_to_definition") =>
        LET dflt == args.param.default
            d == result.input_def.default
        IN  /\ (d = PyNone) <=> (dflt = NoDefault)
            /\ dflt # NoDefault =>
                   /\ d.kind = "str"
                   /\ d.s = (IF dflt = NoneDefault THEN "" ELSE Str(dflt))

\* C6 amended: the default is absent exactly when the parameter declares
\* none; it is "" for None, the member's underlying value, unconverted, for
\* an enum member (an int for an int-valued enum), and the string form of
\* the default value in every other case.
C6_Amended ==
    Done("param_to_definition") =>
        LET dflt == args.param.default
            d == result.input_def.default
        IN  /\ (d = PyNone) <=> (dflt = NoDefault)
            /\ dflt = NoneDefault => d = PyStr("")
            /\ dflt.kind = "enum" =>
                   d = (IF dflt.vkind = "int" THEN PyInt(dflt.n) ELSE PyStr(dflt.s))
            /\ dflt.kind \in {"str", "int"} => d = PyStr(Str(dflt))

\* An int-valued enum member as default: the default is the int 1.
C6_Witness ==
    /\ Done("param_to_definition")
    /\ args.param.default = IntEnumMember("Level", "ONE", 1)
    /\ result.input_def.default = PyInt(1)

\* C7: a described parameter is never both an enum and a connection: with
\* enum set the flag is false and custom_type absent; with the flag true
\* enum is absent.
C7_EnumXorConnection ==
    Done("param_to_definition") =>
        LET d == result.input_def
        IN  /\ ~d.enum.isNone => (~result.is_connection /\ d.custom_type.isNone)
            /\ result.is_connection => d.enum.isNone

\* An enum-annotated parameter described with custom types requested.
C7_Witness ==
    /\ Done("param_to_definition")
    /\ args.gen_custom_type_conn
    /\ args.param.annotation = PlainAnnotation("Color")
    /\ ~result.input_def.enum.isNone
    /\ ~result.is_connection

\* C8: a non-union annotation is returned unchanged; a union loses its
\* absence member and yields the one remaining member itself, or else the
\* remaining members as a list in their original order.
C8_ResolveAnnotation ==
    Done("resolve_annotation") =>
        LET anno == args.anno
            members == WithoutNone(anno.args)
        IN  /\ anno.origin # "Union" => result = TypeValue(anno.t)
            /\ (anno.origin = "Union" /\ Len(members) = 1) => result = TypeValue(members[1])
            /\ (anno.origin = "Union" /\ Len(members) # 1) => result = ListValue(members)

\* Optional[Union[A, B]]: the two members other than None, as a list.
C8_Witness ==
    /\ Done("resolve_annotation")
    /\ args.anno.origin = "Union"
    /\ Len(args.anno.args) = 3
    /\ NoneType \in Range(args.anno.args)
    /\ result.isList /\ Len(result.ts) = 2

\* The parameter's resolved type is a list of candidates.
ListResolved(param) ==
    param.annotation.origin = "Union" /\ Len(WithoutNone(param.annotation.args)) >= 2

\* C9 as stated: for a list of candidates the result is the single object
\* tag with the flag false exactly when none of the candidates is
\* connection-capable; otherwise the parameter is connection-typed and
\* "CustomConnection" appears at most once among the tags.
C9_Original ==
    (Done("param_to_definition") /\ ListResolved(args.param)) =>
        LET ts == WithoutNone(args.param.annotation.args)
            none == \A i \in 1..Len(ts) : ~ConnectionCapable(ts[i])
            d == result.input_def
        IN  /\ (d.type = <<ValueType_OBJECT>> /\ ~result.is_connection) <=> none
            /\ ~none => (result.is_connection /\ Count("CustomConnection", d.type) <= 1)

\* The tag a connection-capable candidate contributes.
TagOf(t) == IF t \in CustomStrongTypes THEN "CustomConnection" ELSE t

\* C9 amended: for a list of candidates the result is the single object tag
\* with the flag false exactly when at least one candidate is not
\* connection-capable; when every candidate is connection-capable the
\* parameter is connection-typed, the tags are the candidates' tags in
\* candidate order, and "CustomConnection" appears at most once.
C9_Amended ==
    (Done("param_to_definition") /\ ListResolved(args.param)) =>
        LET ts == WithoutNone(args.param.annotation.args)
            some == \E i \in 1..Len(ts) : ~ConnectionCapable(ts[i])
            d == result.input_def
        IN  /\ (d.type = <<ValueType_OBJECT>> /\ ~result.is_connection) <=> some
            /\ ~some =>
                   /\ result.is_connection
                   /\ Count("CustomConnection", d.type) <= 1
                   /\ Range(d.type) = {TagOf(ts[i]) : i \in 1..Len(ts)}
                   /\ \A i, j \in 1..Len(d.type) : i < j =>
                          \E a, b \in 1..Len(ts) :
                              a < b /\ TagOf(ts[a]) = d.type[i] /\ TagOf(ts[b]) = d.type[j]

\* A custom connection, then the literal CustomConnection: one marker.
C9_Witness ==
    /\ Done("param_to_definition")
    /\ ListResolved(args.param)
    /\ \E i, j \in 1..Len(args.param.annotation.args) :
           /\ i < j
           /\ args.param.annotation.args[i] \in CustomStrongTypes
           /\ args.param.annotation.args[j] = "CustomConnection"
    /\ result.is_connection
    /\ Count("CustomConnection", result.input_def.type) = 1

\* The names of a signature's parameters other than self and the variadic
\* ones, in declaration order.
RECURSIVE NamedInputs(_)
NamedInputs(ps) ==
    IF ps = <<>> THEN <<>>
    ELSE IF Head(ps).name = "self" \/ Head(ps).kind \in {VAR_POSITIONAL, VAR_KEYWORD}
    THEN NamedInputs(Tail(ps))
    ELSE <<Head(ps).name>> \o NamedInputs(Tail(ps))

\* C4: function_to_interface raises the duplicate-input error, and returns
\* nothing, exactly when an initializer parameter's name is a name of the
\* callable's own signature; otherwise the keys of the inputs are the
\* initializer names in their order, then the callable's own names in
\* declaration order without self and the variadic parameters.
C4_InterfaceKeys ==
    Done("function_to_interface") =>
        LET sign == args.f.parameters
            init == args.initialize_inputs.items
            initNames == [i \in 1..Len(init) |-> init[i].name]
            collide == \E i \in 1..Len(init), j \in 1..Len(sign) : init[i].name = sign[j].name
        IN  /\ (result.raised # "") <=> collide
            /\ collide => result = Raised("Exception")
            /\ ~collide => Keys(result.input_defs) = initNames \o NamedInputs(sign)

\* Initializer inputs merged ahead of a signature that has self, a named
\* input and a variadic parameter.
C4_Witness ==
    /\ Done("function_to_interface")
    /\ result.raised = ""
    /\ Len(args.initialize_inputs.items) >= 1
    /\ \E i, j, k \in 1..Len(args.f.parameters) :
           /\ args.f.parameters[i].name = "self"
           /\ args.f.parameters[j].kind \in {VAR_POSITIONAL, VAR_KEYWORD}
           /\ args.f.parameters[k].name = "a"
    /\ Len(result.input_defs) = Len(args.initialize_inputs.items) + 1

\* C10: class_name is absent when the qualified name has no "." and is
\* otherwise the qualified name less its trailing ".<function name>", so
\* that class_name, ".", and the function name make up the tool's name.
C10_ClassName ==
    (Done("function_to_tool_definition") /\ result.raised = "") =>
        LET tool == result.tool
        IN  IF Dot \notin Range(tool.name) THEN tool.class_name.isNone
            ELSE /\ ~tool.class_name.isNone
                 /\ tool.class_name.items \o <<Dot>> \o tool.function = tool.name

\* C5: the keys of the returned mapping are in strictly increasing order of
\* the position of each name's first occurrence in the raw template (no two
\* of them share a position, so the template alone fixes the order), and a
\* name the image form refers to keeps its place and is typed image.
C5_StrictFirstOccurrenceOrder ==
    Done("get_inputs_for_prompt_template") =>
        LET keys == Keys(result)
        IN  /\ Range(keys) = find_undeclared_variables(args.template_str)
            /\ \A i, j \in 1..Len(keys) :
                   i < j => Find(args.template_str, keys[i]) < Find(args.template_str, keys[j])
            /\ \A i \in 1..Len(result) :
                   result[i].v.type =
                       IF result[i].k \in Range(ImageMatches(args.template_str))
                       THEN <<ValueType_IMAGE>> ELSE <<ValueType_STRING>>

Lookup(d, k) == d[CHOOSE i \in 1..Len(d) : d[i].k = k].v

\* C1: the augmenter returns the mapping whose keys are the user's keys and
\* the admitted triple keys (all of them under a catch-all keyword
\* parameter, else those that name a declared parameter); a key the user
\* supplied maps to the user's value, any other to the triple's.
C1_Augmented ==
    Done("append_workspace_triple_to_func_input_params") =>
        LET user == args.func_input_params_dict.items
            triple == args.ws_triple_dict.items
            declared == {p.name : p \in args.func_sig_params}
            catchAll == \E p \in args.func_sig_params : p.kind = VAR_KEYWORD
            admitted == {k \in Range(Keys(triple)) : catchAll \/ k \in declared}
        IN  /\ Range(Keys(result)) = Range(Keys(user)) \cup admitted
            /\ Cardinality(Range(Keys(result))) = Len(result)
            /\ \A k \in Range(Keys(user)) : Lookup(result, k) = Lookup(user, k)
            /\ \A k \in admitted \ Range(Keys(user)) : Lookup(result, k) = Lookup(triple, k)

\* A function declaring subscription_id alone of the triple, with no
\* catch-all, called with the user's own subscription_id: the user's wins
\* and nothing else of the triple comes through.
C1_Witness ==
    /\ Done("append_workspace_triple_to_func_input_params")
    /\ {p.name : p \in args.func_sig_params} = {"subscription_id", "prefix"}
    /\ args.ws_triple_dict = Some(WorkspaceTriple)
    /\ args.func_input_params_dict = Some(<<Item("subscription_id", "user-sub")>>)
    /\ result = <<Item("subscription_id", "user-sub")>>

\* A value of type string, integer, floating-point, list or mapping (a bool
\* is an int).
SupportedValue(v) == v.class \in {"str", "int", "bool", "float", "list", "dict"}

HasValueKey(item) == \E n \in 1..Len(item.entries) : item.entries[n].k = Key("str", "value")

ValidItem(item) ==
    /\ item.class = "dict"
    /\ HasValueKey(item)
    /\ \A n \in 1..Len(item.entries) :
           /\ item.entries[n].k.class = "str"
           /\ item.entries[n].v.serializable
           /\ SupportedValue(item.entries[n].v)

\* C2: the validator returns without raising exactly when the response is
\* a non-empty list whose every element is a mapping with a "value" key,
\* string keys only, and values that are JSON-serializable and of a
\* supported type; otherwise it raises ListFunctionResponseError.
C2_ReturnsExactlyWhenValid ==
    Done("validate_dynamic_list_func_response_type") =>
        LET r == args.response
            valid == /\ r.class = "list"
                     /\ r.items # <<>>
                     /\ \A i \in 1..Len(r.items) : ValidItem(r.items[i])
        IN  /\ (result.raised = "") <=> valid
            /\ ~valid => result.raised = "ListFunctionResponseError"

\* A list of two valid elements passes.
C2_Witness ==
    /\ Done("validate_dynamic_list_func_response_type")
    /\ args.response.class = "list"
    /\ Len(args.response.items) = 2
    /\ result.raised = ""

Least(S) == CHOOSE n \in S : \A m \in S : n <= m

\* The first rule an element violates, the rules taken over the whole
\* element in the order they are written.
FirstRuleOfElement(item) ==
    IF item.class # "dict" THEN "must be a list of dict"
    ELSE IF ~HasValueKey(item) THEN "must have 'value' key"
    ELSE IF \E n \in 1..Len(item.entries) : item.entries[n].k.class # "str"
    THEN "key must be a string"
    ELSE IF \E n \in 1..Len(item.entries) : ~item.entries[n].v.serializable
    THEN "value is not json serializable"
    ELSE IF \E n \in 1..Len(item.entries) : ~SupportedValue(item.entries[n].v)
    THEN "value is not supported"
    ELSE ""

\* C3 as stated: the error raised on a non-empty list is that of the first
\* violating element, and within it of the first violated rule in the
\* order: not a mapping, no "value" key, some key not a string, some value
\* not JSON-serializable, some value of an unsupported type.
C3_Original ==
    (/\ Done("validate_dynamic_list_func_response_type")
     /\ args.response.class = "list" /\ args.response.items # <<>>
     /\ result.raised # "") =>
        LET items == args.response.items
            first == Least({i \in 1..Len(items) : ~ValidItem(items[i])})
        IN  /\ result.item = first
            /\ result.rule = FirstRuleOfElement(items[first])

\* The first rule one entry of a mapping violates.
FirstRuleOfEntry(e) ==
    IF e.k.class # "str" THEN "key must be a string"
    ELSE IF ~e.v.serializable THEN "value is not json serializable"
    ELSE IF ~SupportedValue(e.v) THEN "value is not supported"
    ELSE ""

\* C3 amended: the error raised on a non-empty list is that of the first
\* violating element; within it the order is: not a mapping, no "value"
\* key, and then the first entry, in the mapping's iteration order, that
\* violates a rule, with that entry's first violated rule in the order: key
\* not a string, value not JSON-serializable, value of an unsupported type.
C3_Amended ==
    (/\ Done("validate_dynamic_list_func_response_type")
     /\ args.response.class = "list" /\ args.response.items # <<>>
     /\ result.raised # "") =>
        LET items == args.response.items
            first == Least({i \in 1..Len(items) : ~ValidItem(items[i])})
            item == items[first]
            entry == Least({n \in 1..Len(item.entries) : FirstRuleOfEntry(item.entries[n]) # ""})
        IN  /\ result.item = first
            /\ IF item.class # "dict" THEN result.rule = "must be a list of dict"
               ELSE IF ~HasValueKey(item) THEN result.rule = "must have 'value' key"
               ELSE /\ result.entry = entry
                    /\ result.rule = FirstRuleOfEntry(item.entries[entry])

\* {"value": None, 1: "x"}: the unsupported value of the first entry is
\* reported, not the non-string key of the second.
C3_Witness ==
    /\ Done("validate_dynamic_list_func_response_type")
    /\ args.response.class = "list" /\ Len(args.response.items) = 1
    /\ args.response.items[1] =
           Dict(<<[k |-> Key("str", "value"), v |-> Value(NoneType, TRUE)],
                  [k |-> Key("int", "1"), v |-> Value("str", TRUE)]>>)
    /\ result.rule = "value is not supported"
    /\ result.entry = 1

=============================================================================
